---- MODULE Spec2Model ----
(***************************************************************************)
(* Tournament scheduling: scheduling_optimization/__main__.py.             *)
(*                                                                         *)
(* main() builds a CP-SAT model over boolean variables                     *)
(*   allocations[(p, g, r)], round_matchups[(r, p1, p2)],                  *)
(*   round_game_matchups[(r, g, p1, p2)]                                   *)
(* and hands it to the solver, which calls                                 *)
(* PartialSolutionPrinter.on_solution_callback once per solution.          *)
(*                                                                         *)
(* Representation of a solver valuation.  Every constraint that mentions   *)
(* a matchup variable (lines 176-203) mentions the matchup variables of    *)
(* one pair (p1, p2) only, so a total valuation satisfies the model iff    *)
(* its allocations satisfy lines 159-168 and, for every pair separately,   *)
(* the pair's matchup variables satisfy lines 176-203.  The state keeps    *)
(* the allocations in full and the matchup variables of one pair, `pair`,  *)
(* which the solver step picks arbitrarily; the matchup variables of the   *)
(* other pairs are quantified existentially (Satisfies).                   *)
(* A valuation is the set of the variables that are true.                  *)
(***************************************************************************)
EXTENDS Integers, Sequences, FiniteSets, TLC

\* Bounds of the model (the source fixes 50 / 5 / 4 / 1 / 2 at lines 12-16).
MaxParticipants == 6
MaxGames == 3
MaxRounds == 2
MaxCells == 16
MaxRepeat == 2
MaxLimit == 2
\* Bound on the cells of an arbitrary valuation handed to the pure functions.
MaxFnCells == 8

VARIABLES
    NUM_PARTICIPANTS,       \* _NUM_PARTICIPANTS
    NUM_GAMES,              \* _NUM_GAMES
    NUM_ROUNDS,             \* _NUM_ROUNDS
    SOLUTION_LIMIT,         \* _SOLUTION_LIMIT
    MAX_REPEAT_MATCHUPS,    \* _MAX_REPEAT_MATCHUPS
    pc,                     \* position of the run
    participants_per_game,  \* main's local
    model,                  \* the CpModel built by main, or NoModel
    search_space,           \* solutions the solver has not delivered yet
    value,                  \* valuation the callback reads through self.Value
    solution_count,         \* PartialSolutionPrinter._solution_count
    stop_search,            \* StopSearch() has been called
    sol,                    \* on_solution_callback's local `sol`
    c_arr,                  \* result of build_solution_c_arr_template(sol)
    repeated,               \* result of count_repeated_matchups(sol)
    logged,                 \* number of schedules written to the log
    summary,                \* "Solutions found" of the final statistics
    satisfied               \* (g, r) whose line 201-203 constraint holds

vars == <<NUM_PARTICIPANTS, NUM_GAMES, NUM_ROUNDS, SOLUTION_LIMIT,
          MAX_REPEAT_MATCHUPS, pc, participants_per_game, model, search_space,
          value, solution_count, stop_search, sol, c_arr, repeated, logged,
          summary, satisfied>>

config == <<NUM_PARTICIPANTS, NUM_GAMES, NUM_ROUNDS, SOLUTION_LIMIT,
            MAX_REPEAT_MATCHUPS>>

NoModel == [allocations |-> 0, round_matchups |-> 0,
            round_game_matchups |-> 0, constraints |-> 0, built |-> FALSE]
NoValue == [allocations |-> {}, pair |-> <<>>, round_matchups |-> {},
            round_game_matchups |-> {}]
NoSummary == -1
AssertionError == "AssertionError"
NoTemplate == [raised |-> FALSE, entries |-> <<>>]

\* The engine may deliver one solution more than the largest limit.
MaxCallbacks == MaxLimit + 1
\* Solution counts are kept up to Horizon: "more than can be delivered".
Horizon == MaxCallbacks + 1

Min(a, b) == IF a < b THEN a ELSE b

\* range(_NUM_PARTICIPANTS), range(_NUM_GAMES), range(_NUM_ROUNDS)
Participants == 0 .. (NUM_PARTICIPANTS - 1)
Games == 0 .. (NUM_GAMES - 1)
Rounds == 0 .. (NUM_ROUNDS - 1)

\* itertools.combinations(range(_NUM_PARTICIPANTS), 2)
Combinations == {pr \in Participants \X Participants : pr[1] < pr[2]}

\* keys of the allocations dict
Cells == Participants \X Games \X Rounds

(***************************************************************************)
(* The constraints main adds to the model.                                 *)
(***************************************************************************)

\* lines 159-161: AddExactlyOne(allocations[(p, g, r)] for g)
ExactlyOneGame(alloc) ==
    \A r \in Rounds : \A p \in Participants :
        Cardinality({g \in Games : <<p, g, r>> \in alloc}) = 1

\* lines 165-168: sum(allocations[(p, g, r)] for p) == participants_per_game
GameSize(alloc) ==
    \A r \in Rounds : \A g \in Games :
        Cardinality({p \in Participants : <<p, g, r>> \in alloc})
            = participants_per_game

RepeatLimit_strict(rm) == Cardinality(rm) < MAX_REPEAT_MATCHUPS

\* lines 176-180: sum(round_matchups[(r, p1, p2)] for r) <= _MAX_REPEAT_MATCHUPS
RepeatLimit(rm) == Cardinality(rm) <= MAX_REPEAT_MATCHUPS

GameImpliesRound_reversed(rm, rgm) ==
    \A g \in Games : \A r \in Rounds : (r \in rm) => (<<r, g>> \in rgm)

\* lines 191-196: round_game_matchups[(r, g, p1, p2)] => round_matchups[(r, p1, p2)]
GameImpliesRound(rm, rgm) ==
    \A g \in Games : \A r \in Rounds : (<<r, g>> \in rgm) => (r \in rm)

AllocImpliesGameMatchup_unconditional(alloc, rgm, p1, p2, g, r) ==
    (<<p1, g, r>> \in alloc) => (<<r, g>> \in rgm)

\* lines 201-203: AddImplication(allocations[(p1, g, r)],
\*     round_game_matchups[(r, g, p1, p2)]).OnlyEnforceIf(allocations[(p2, g, r)])
\* The implication is enforced when the enforcement literal is true and
\* imposes nothing when it is false.
AllocImpliesGameMatchup(alloc, rgm, p1, p2, g, r) ==
    (<<p2, g, r>> \in alloc) =>
        ((<<p1, g, r>> \in alloc) => (<<r, g>> \in rgm))

AllocImpliesGame_reversed(alloc, rgm, p1, p2) ==
    \A r \in Rounds : \A g \in Games :
        (<<p2, g, r>> \in alloc) =>
            ((<<r, g>> \in rgm) => (<<p1, g, r>> \in alloc))

\* lines 198-203: the loop over rounds and games for one pair
AllocImpliesGame(alloc, rgm, p1, p2) ==
    \A r \in Rounds : \A g \in Games :
        AllocImpliesGameMatchup(alloc, rgm, p1, p2, g, r)

\* lines 176-203 for one pair
PairConstraints(alloc, pr, rm, rgm) ==
    /\ RepeatLimit(rm)
    /\ GameImpliesRound(rm, rgm)
    /\ AllocImpliesGame(alloc, rgm, pr[1], pr[2])

\* the valuations of one pair's matchup variables the model admits
PairValuations(alloc, pr) ==
    {m \in (SUBSET Rounds) \X (SUBSET (Rounds \X Games)) :
        PairConstraints(alloc, pr, m[1], m[2])}

\* lines 157-168: the allocations the model admits on their own
FeasibleAllocations ==
    {alloc \in SUBSET Cells : ExactlyOneGame(alloc) /\ GameSize(alloc)}

\* every pair's matchup variables can be valued: the allocations extend to a
\* valuation of all the variables that satisfies every constraint of main
Extendable(alloc) ==
    \A pr \in Combinations : PairValuations(alloc, pr) # {}

\* the pair whose matchup variables the state keeps (none when there is no pair)
ObservedPairs == IF Combinations = {} THEN {<<>>} ELSE Combinations

ObservedValuations(alloc, pr) ==
    IF pr = <<>> THEN {<<{}, {}>>} ELSE PairValuations(alloc, pr)

(***************************************************************************)
(* The solver (external): with enumerate_all_solutions (line 207) it       *)
(* delivers every valuation that satisfies the model, one callback each.   *)
(***************************************************************************)

RECURSIVE PairProduct(_, _)
\* number of ways to value the matchup variables of the pairs in prs
PairProduct(alloc, prs) ==
    IF prs = {} THEN 1
    ELSE LET pr == CHOOSE x \in prs : TRUE
         IN Min(Horizon, Cardinality(PairValuations(alloc, pr))
                            * PairProduct(alloc, prs \ {pr}))

RECURSIVE SumSolutions(_)
SumSolutions(allocs) ==
    IF allocs = {} THEN 0
    ELSE LET a == CHOOSE x \in allocs : TRUE
         IN Min(Horizon, PairProduct(a, Combinations)
                            + SumSolutions(allocs \ {a}))

\* line 217: the number of solutions of the model, counted up to Horizon
NumSolutions == SumSolutions(FeasibleAllocations)

(***************************************************************************)
(* on_solution_callback, lines 99-113: decoding the valuation.             *)
(***************************************************************************)

RECURSIVE game_participants_skip_first(_, _, _, _)
game_participants_skip_first(alloc, g, r, n) ==
    IF n <= 1 THEN <<>>
    ELSE LET prev == game_participants_skip_first(alloc, g, r, n - 1)
         IN IF <<n - 1, g, r>> \in alloc THEN Append(prev, n - 1) ELSE prev

RECURSIVE game_participants(_, _, _, _)
\* lines 105-109: the loop over p in range(n), appending p when Value(...) is true
game_participants(alloc, g, r, n) ==
    IF n = 0 THEN <<>>
    ELSE LET prev == game_participants(alloc, g, r, n - 1)
         IN IF <<n - 1, g, r>> \in alloc THEN Append(prev, n - 1) ELSE prev

\* lines 99-113: sol[r][g] is the tuple of the participants of game g in round r
\* (sequences are 1-based: sol[r + 1][g + 1])
Decode(alloc) ==
    [r1 \in 1 .. NUM_ROUNDS |->
        [g1 \in 1 .. NUM_GAMES |->
            game_participants(alloc, g1 - 1, r1 - 1, NUM_PARTICIPANTS)]]

\* `p in item` for a tuple
InTuple(p, item) == \E i \in DOMAIN item : item[i] = p

(***************************************************************************)
(* count_repeated_matchups, lines 19-31.                                   *)
(***************************************************************************)

RECURSIVE Flatten(_)
\* line 20: flat_sol = [item for the_round in sol for item in the_round]
Flatten(s) == IF s = <<>> THEN <<>> ELSE Head(s) \o Flatten(Tail(s))

RECURSIVE matchup_count(_, _, _)
\* lines 25-29: counts[(p1, p2)] after the loop over the items of flat_sol
matchup_count(flat, p1, p2) ==
    IF flat = <<>> THEN 0
    ELSE (IF InTuple(p1, Head(flat)) /\ InTuple(p2, Head(flat)) THEN 1 ELSE 0)
            + matchup_count(Tail(flat), p1, p2)

excess_no_decrement(val) == IF val > 1 THEN val ELSE 0

\* line 31: a pair's term of the sum, val - 1 if val > 1
excess(val) == IF val > 1 THEN val - 1 ELSE 0

RECURSIVE sum_excess(_, _)
\* line 31: sum(val - 1 for val in counts.values() if val > 1)
sum_excess(flat, prs) ==
    IF prs = {} THEN 0
    ELSE LET pr == CHOOSE x \in prs : TRUE
         IN excess(matchup_count(flat, pr[1], pr[2]))
                + sum_excess(flat, prs \ {pr})

count_repeated_matchups(s) == sum_excess(Flatten(s), Combinations)

(***************************************************************************)
(* build_solution_c_arr_template, lines 62-83.                             *)
(***************************************************************************)

RECURSIVE games_in_round_absent(_, _, _)
games_in_round_absent(the_round, p, n) ==
    IF n = 0 THEN <<>>
    ELSE LET prev == games_in_round_absent(the_round, p, n - 1)
         IN IF ~InTuple(p, the_round[n]) THEN Append(prev, n - 1) ELSE prev

RECURSIVE games_in_round(_, _, _)
\* lines 69-71: the game indices of the first n games of the_round that hold p
games_in_round(the_round, p, n) ==
    IF n = 0 THEN <<>>
    ELSE LET prev == games_in_round(the_round, p, n - 1)
         IN IF InTuple(p, the_round[n]) THEN Append(prev, n - 1) ELSE prev

RECURSIVE games_of(_, _)
\* lines 66-71: `games` of participant p
games_of(s, p) ==
    IF s = <<>> THEN <<>>
    ELSE games_in_round(Head(s), p, Len(Head(s))) \o games_of(Tail(s), p)

\* lines 62-83: the entries, one per participant (entries[p + 1] is the list of
\* game indices of p); raised when one of the two asserts fails
build_solution_c_arr_template(s) ==
    LET entries == [p1 \in 1 .. NUM_PARTICIPANTS |-> games_of(s, p1 - 1)]
    IN IF \E p1 \in 1 .. NUM_PARTICIPANTS : Len(entries[p1]) # NUM_ROUNDS
         THEN [raised |-> TRUE, entries |-> <<>>]
       ELSE IF Len(entries) # NUM_PARTICIPANTS
         THEN [raised |-> TRUE, entries |-> <<>>]
       ELSE [raised |-> FALSE, entries |-> entries]


(***************************************************************************)
(* The run: main, lines 144-229.                                           *)
(***************************************************************************)

Init ==
    /\ NUM_PARTICIPANTS \in 1 .. MaxParticipants
    /\ NUM_GAMES \in 1 .. MaxGames
    /\ NUM_ROUNDS \in 1 .. MaxRounds
    /\ NUM_PARTICIPANTS * NUM_GAMES * NUM_ROUNDS <= MaxCells
    /\ SOLUTION_LIMIT \in 0 .. MaxLimit
    /\ MAX_REPEAT_MATCHUPS \in 0 .. MaxRepeat
    /\ pc = "main"
    /\ participants_per_game = 0
    /\ model = NoModel
    /\ search_space = 0
    /\ value = NoValue
    /\ solution_count = 0
    /\ stop_search = FALSE
    /\ sol = <<>>
    /\ c_arr = NoTemplate
    /\ repeated = 0
    /\ logged = 0
    /\ summary = NoSummary
    /\ satisfied = {}

assert_divisible_off(per_game) == TRUE

\* line 146: assert participants_per_game * _NUM_GAMES == _NUM_PARTICIPANTS
assert_divisible(per_game) == per_game * NUM_GAMES = NUM_PARTICIPANTS

\* lines 145-146: participants_per_game (int() of the quotient of two positive
\* integers is the floor) and the divisibility assert
CheckDivisible ==
    /\ pc = "main"
    /\ participants_per_game' = NUM_PARTICIPANTS \div NUM_GAMES
    /\ pc' = IF assert_divisible(participants_per_game')
               THEN "build" ELSE AssertionError
    /\ UNCHANGED <<config, model, search_space, value, solution_count,
                   stop_search, sol, c_arr, repeated, logged, summary,
                   satisfied>>

\* lines 148-203: the variables and constraints of the model
BuildModel ==
    /\ pc = "build"
    /\ LET npairs == Cardinality(Combinations)
       IN model' =
            [allocations |-> NUM_PARTICIPANTS * NUM_GAMES * NUM_ROUNDS,
             round_matchups |-> npairs * NUM_ROUNDS,
             round_game_matchups |-> npairs * NUM_GAMES * NUM_ROUNDS,
             constraints |-> NUM_ROUNDS * NUM_PARTICIPANTS
                              + NUM_ROUNDS * NUM_GAMES
                              + npairs
                              + 2 * npairs * NUM_GAMES * NUM_ROUNDS,
             built |-> TRUE]
    /\ pc' = "solve"
    /\ UNCHANGED <<config, participants_per_game, search_space, value,
                   solution_count, stop_search, sol, c_arr, repeated, logged,
                   summary, satisfied>>

\* lines 205-217: the solver and the printer are created, Solve is entered
StartSolve ==
    /\ pc = "solve"
    /\ solution_count' = 0
    /\ search_space' = NumSolutions
    /\ pc' = "solving"
    /\ UNCHANGED <<config, participants_per_game, model, value, stop_search,
                   sol, c_arr, repeated, logged, summary, satisfied>>

stop_condition_strict(count) == count > SOLUTION_LIMIT

\* line 136: self._solution_count >= self._solution_limit
stop_condition(count) == count >= SOLUTION_LIMIT

\* lines 96-138: the whole handler, run on the valuation v the solver holds.
\* Lines 118-122 (get_avg_meetups) only compute a value that is logged with
\* the schedule; an assert failing in build_solution_c_arr_template leaves
\* the handler before count_repeated_matchups and StopSearch.
on_solution_callback(v) ==
    LET count == solution_count + 1
        s == Decode(v.allocations)
        t == build_solution_c_arr_template(s)
    IN /\ value' = v
       /\ solution_count' = count
       /\ sol' = s
       /\ logged' = logged + 1
       /\ c_arr' = t
       /\ IF t.raised
            THEN /\ pc' = "callback_raised"
                 /\ UNCHANGED <<repeated, stop_search>>
            ELSE /\ repeated' = count_repeated_matchups(s)
                 /\ stop_search' = (stop_search \/ stop_condition(count))
                 /\ pc' = "callback_return"

\* line 217: the solver finds a solution and calls the callback
EngineSolution ==
    /\ pc = "solving"
    /\ ~stop_search
    /\ search_space > 0
    /\ search_space' = search_space - 1
    /\ \E alloc \in FeasibleAllocations :
         /\ Extendable(alloc)
         /\ \E pr \in ObservedPairs :
              \E m \in ObservedValuations(alloc, pr) :
                 on_solution_callback([allocations |-> alloc, pair |-> pr,
                                       round_matchups |-> m[1],
                                       round_game_matchups |-> m[2]])
    /\ UNCHANGED <<config, participants_per_game, model, summary, satisfied>>

\* line 217: StopSearch is a request; the solver delivers one more solution
\* before it honours it
EngineLateSolution ==
    /\ pc = "solving"
    /\ stop_search
    /\ search_space > 0
    /\ solution_count < MaxCallbacks
    /\ search_space' = search_space - 1
    /\ \E alloc \in FeasibleAllocations :
         /\ Extendable(alloc)
         /\ \E pr \in ObservedPairs :
              \E m \in ObservedValuations(alloc, pr) :
                 on_solution_callback([allocations |-> alloc, pair |-> pr,
                                       round_matchups |-> m[1],
                                       round_game_matchups |-> m[2]])
    /\ UNCHANGED <<config, participants_per_game, model, summary, satisfied>>

\* the callback returns to the solver; its locals are gone
CallbackReturn ==
    /\ pc = "callback_return"
    /\ pc' = "solving"
    /\ value' = NoValue
    /\ sol' = <<>>
    /\ c_arr' = NoTemplate
    /\ repeated' = 0
    /\ UNCHANGED <<config, participants_per_game, model, search_space,
                   solution_count, stop_search, logged, summary, satisfied>>

\* line 217: Solve returns, the search space exhausted or the stop honoured
SearchEnds ==
    /\ pc = "solving"
    /\ (search_space = 0 \/ stop_search)
    /\ pc' = "statistics"
    /\ UNCHANGED <<config, participants_per_game, model, search_space, value,
                   solution_count, stop_search, sol, c_arr, repeated, logged,
                   summary, satisfied>>

\* lines 219-229: the final statistics
Statistics ==
    /\ pc = "statistics"
    /\ summary' = solution_count
    /\ pc' = "done"
    /\ UNCHANGED <<config, participants_per_game, model, search_space, value,
                   solution_count, stop_search, sol, c_arr, repeated, logged,
                   satisfied>>

Next ==
    \/ CheckDivisible
    \/ BuildModel
    \/ StartSolve
    \/ EngineSolution
    \/ EngineLateSolution
    \/ CallbackReturn
    \/ SearchEnds
    \/ Statistics

Spec == Init /\ [][Next]_vars

\* a solver that halts as soon as StopSearch is called
NextPrompt ==
    \/ CheckDivisible
    \/ BuildModel
    \/ StartSolve
    \/ EngineSolution
    \/ CallbackReturn
    \/ SearchEnds
    \/ Statistics

PromptSpec == Init /\ [][NextPrompt]_vars


(***************************************************************************)
(* The pure functions applied to arbitrary valuations: the solver's        *)
(* constraints are not assumed, so games of any size, participants in      *)
(* several games or none, and any matchup values occur.                    *)
(***************************************************************************)

InitFn ==
    /\ NUM_PARTICIPANTS \in 1 .. MaxParticipants
    /\ NUM_GAMES \in 1 .. MaxGames
    /\ NUM_ROUNDS \in 1 .. MaxRounds
    /\ NUM_PARTICIPANTS * NUM_GAMES * NUM_ROUNDS <= MaxFnCells
    /\ SOLUTION_LIMIT = 0
    /\ MAX_REPEAT_MATCHUPS \in 0 .. MaxRepeat
    /\ pc = "fn_input"
    /\ participants_per_game = 0
    /\ model = NoModel
    /\ search_space = 0
    /\ \E alloc \in SUBSET Cells : \E pr \in ObservedPairs :
         \E rm \in SUBSET Rounds : \E rgm \in SUBSET (Rounds \X Games) :
            /\ (pr = <<>>) => (rm = {} /\ rgm = {})
            /\ value = [allocations |-> alloc, pair |-> pr,
                        round_matchups |-> rm, round_game_matchups |-> rgm]
    /\ solution_count = 0
    /\ stop_search = FALSE
    /\ sol = <<>>
    /\ c_arr = NoTemplate
    /\ repeated = 0
    /\ logged = 0
    /\ summary = NoSummary
    /\ satisfied = {}

\* lines 198-203 evaluated on the valuation: the (g, r) whose constraint holds
FnConstraint ==
    /\ pc = "fn_input"
    /\ satisfied' =
         IF value.pair = <<>> THEN {}
         ELSE {gr \in Games \X Rounds :
                 AllocImpliesGameMatchup(value.allocations,
                     value.round_game_matchups, value.pair[1], value.pair[2],
                     gr[1], gr[2])}
    /\ pc' = "fn_checked"
    /\ UNCHANGED <<config, participants_per_game, model, search_space, value,
                   solution_count, stop_search, sol, c_arr, repeated, logged,
                   summary>>

\* lines 99-113 applied to the valuation
FnDecode ==
    /\ pc = "fn_checked"
    /\ sol' = Decode(value.allocations)
    /\ pc' = "fn_decoded"
    /\ UNCHANGED <<config, participants_per_game, model, search_space, value,
                   solution_count, stop_search, c_arr, repeated, logged,
                   summary, satisfied>>

\* lines 19-31 applied to the decoded schedule
FnCount ==
    /\ pc = "fn_decoded"
    /\ repeated' = count_repeated_matchups(sol)
    /\ pc' = "fn_counted"
    /\ UNCHANGED <<config, participants_per_game, model, search_space, value,
                   solution_count, stop_search, sol, c_arr, logged, summary,
                   satisfied>>

NextFn ==
    \/ FnConstraint
    \/ FnDecode
    \/ FnCount

FnSpec == InitFn /\ [][NextFn]_vars


(***************************************************************************)
(* Properties.                                                             *)
(***************************************************************************)

InCallback == pc \in {"callback_return", "callback_raised"}

\* the rounds in which both members of pr are allocated to one game
SharedRounds(alloc, pr) ==
    {r \in Rounds : \E g \in Games :
        <<pr[1], g, r>> \in alloc /\ <<pr[2], g, r>> \in alloc}

\* C1: in every valuation the solver delivers, every pair p1 < p2 shares a
\* game in at most _MAX_REPEAT_MATCHUPS rounds; the observed pair's
\* round_matchups are true in every round the pair shares.
C1_RepeatLimitSound ==
    InCallback =>
        /\ \A pr \in Combinations :
             Cardinality(SharedRounds(value.allocations, pr))
                <= MAX_REPEAT_MATCHUPS
        /\ (value.pair # <<>>) =>
             SharedRounds(value.allocations, value.pair)
                \subseteq value.round_matchups

C1_Witness ==
    /\ pc = "callback_return"
    /\ NUM_ROUNDS > MAX_REPEAT_MATCHUPS
    /\ MAX_REPEAT_MATCHUPS >= 1
    /\ NUM_GAMES >= 2
    /\ value.pair # <<>>
    /\ Cardinality(SharedRounds(value.allocations, value.pair))
          = MAX_REPEAT_MATCHUPS

\* C2: the schedule decoded by on_solution_callback has _NUM_ROUNDS rounds
\* of _NUM_GAMES games; in every round every participant is in exactly one
\* game, and every game holds exactly P / G distinct participants.
C2_DecodedPartition ==
    InCallback =>
        /\ Len(sol) = NUM_ROUNDS
        /\ \A r1 \in 1 .. NUM_ROUNDS :
             /\ Len(sol[r1]) = NUM_GAMES
             /\ \A p \in Participants :
                  Cardinality({g1 \in 1 .. NUM_GAMES : InTuple(p, sol[r1][g1])}) = 1
             /\ \A g1 \in 1 .. NUM_GAMES :
                  /\ Len(sol[r1][g1]) = NUM_PARTICIPANTS \div NUM_GAMES
                  /\ Cardinality({sol[r1][g1][i] : i \in DOMAIN sol[r1][g1]})
                        = Len(sol[r1][g1])

C2_Witness ==
    /\ pc = "callback_return"
    /\ NUM_GAMES >= 2
    /\ NUM_ROUNDS >= 2
    /\ Len(sol[1][1]) >= 2

\* C3: once StopSearch has been called, a solution the solver still delivers
\* is not processed: the counter, the log and the decoded schedule keep
\* their values.
C3_StoppedIsTerminal ==
    [][(pc = "solving" /\ stop_search) =>
          (solution_count' = solution_count /\ logged' = logged /\ sol' = sol)]_vars

\* C4: with a limit L >= 1, a model with at least L solutions and a solver
\* that halts at the stop request, StopSearch is called in the L-th callback
\* and in no earlier one, exactly L solutions are processed and the summary
\* reports L.
C4_StopAtLimit ==
    (/\ SOLUTION_LIMIT >= 1
     /\ pc \in {"callback_return", "callback_raised", "solving", "statistics", "done"}
     /\ solution_count + search_space >= SOLUTION_LIMIT)
    => /\ pc # "callback_raised"
       /\ stop_search <=> (solution_count >= SOLUTION_LIMIT)
       /\ solution_count <= SOLUTION_LIMIT
       /\ logged = solution_count
       /\ (pc \in {"statistics", "done"}) => (solution_count = SOLUTION_LIMIT)
       /\ (pc = "done") => (summary = SOLUTION_LIMIT)

C4_Witness ==
    /\ pc = "done"
    /\ SOLUTION_LIMIT = MaxLimit
    /\ summary = SOLUTION_LIMIT
    /\ search_space > 0

\* the games of schedule s, as (round, game) positions, that hold both of pr
SharedGames(s, pr) ==
    {rg \in (1 .. Len(s)) \X (1 .. NUM_GAMES) :
        InTuple(pr[1], s[rg[1]][rg[2]]) /\ InTuple(pr[2], s[rg[1]][rg[2]])}

RECURSIVE ExpectedExcess(_, _)
ExpectedExcess(s, prs) ==
    IF prs = {} THEN 0
    ELSE LET pr == CHOOSE x \in prs : TRUE
             c == Cardinality(SharedGames(s, pr))
         IN (IF c - 1 > 0 THEN c - 1 ELSE 0) + ExpectedExcess(s, prs \ {pr})

\* C5: count_repeated_matchups returns the sum over the pairs of
\* max(0, c - 1), c the number of games of the whole schedule that hold both
\* members; it is 0 iff every pair shares at most one game.
C5_CountRepeated ==
    (pc = "fn_counted") =>
        /\ repeated = ExpectedExcess(sol, Combinations)
        /\ (repeated = 0) <=>
              (\A pr \in Combinations : Cardinality(SharedGames(sol, pr)) <= 1)

C5_Witness ==
    /\ pc = "fn_counted"
    /\ MAX_REPEAT_MATCHUPS = 0
    /\ \E pr \in Combinations : Cardinality(SharedGames(sol, pr)) >= 3
    /\ repeated >= 2

\* C6: when _NUM_PARTICIPANTS is not divisible by _NUM_GAMES the run ends at
\* the assert: no model, no search, no callback, no output.
C6_NotDivisibleAborts ==
    (NUM_PARTICIPANTS % NUM_GAMES # 0) =>
        /\ pc \in {"main", AssertionError}
        /\ model = NoModel
        /\ search_space = 0
        /\ value = NoValue
        /\ solution_count = 0
        /\ logged = 0
        /\ sol = <<>>
        /\ summary = NoSummary

C6_Witness ==
    /\ pc = AssertionError
    /\ NUM_PARTICIPANTS % NUM_GAMES # 0
    /\ NUM_PARTICIPANTS > NUM_GAMES

\* games of two or more participants and no repeat allowed
NoMatchupAllowed ==
    /\ MAX_REPEAT_MATCHUPS = 0
    /\ NUM_PARTICIPANTS % NUM_GAMES = 0
    /\ NUM_PARTICIPANTS \div NUM_GAMES >= 2

\* C7: with _MAX_REPEAT_MATCHUPS = 0 and games of two or more participants
\* the model has no solution: the callback is never called, nothing is
\* logged, the search ends and the summary reports 0 solutions.
C7_InfeasibleReportsZero ==
    NoMatchupAllowed =>
        /\ ~InCallback
        /\ solution_count = 0
        /\ logged = 0
        /\ value = NoValue
        /\ (pc \in {"solving", "statistics", "done"}) => (search_space = 0)
        /\ (pc = "solving") => (ENABLED SearchEnds)
        /\ (pc = "done") => (summary = 0)

C7_Witness ==
    /\ pc = "done"
    /\ NUM_PARTICIPANTS = 6
    /\ NUM_GAMES = 2
    /\ NUM_ROUNDS = 1
    /\ MAX_REPEAT_MATCHUPS = 0
    /\ summary = 0

\* C8: on a delivered solution build_solution_c_arr_template raises no
\* assert, gives _NUM_PARTICIPANTS entries of _NUM_ROUNDS game indices, and
\* the r-th index of a participant is the game it is allocated in round r.
C8_TemplateAssertsHold ==
    /\ pc # "callback_raised"
    /\ (pc = "callback_return") =>
          /\ ~c_arr.raised
          /\ Len(c_arr.entries) = NUM_PARTICIPANTS
          /\ \A p \in Participants :
               /\ Len(c_arr.entries[p + 1]) = NUM_ROUNDS
               /\ \A r \in Rounds :
                    <<p, c_arr.entries[p + 1][r + 1], r>> \in value.allocations

C8_Witness ==
    /\ pc = "callback_return"
    /\ NUM_ROUNDS >= 2
    /\ NUM_GAMES >= 2
    /\ ~c_arr.raised
    /\ \E p \in Participants : c_arr.entries[p + 1][1] # c_arr.entries[p + 1][2]

\* participants the valuation allocates to game g in round r
Allocated(alloc, g, r) == {p \in Participants : <<p, g, r>> \in alloc}

\* C9: for every valuation of allocations[(p1, g, r)], allocations[(p2, g, r)]
\* and round_game_matchups[(r, g, p1, p2)], the constraint of lines 201-203
\* holds exactly when (A(p1,g,r) /\ A(p2,g,r)) => M_game(r,g,p1,p2) holds.
C9_EnforcedEqualsTwoPremise ==
    (pc # "fn_input" /\ value.pair # <<>>) =>
        satisfied =
            {gr \in Games \X Rounds :
                (/\ <<value.pair[1], gr[1], gr[2]>> \in value.allocations
                 /\ <<value.pair[2], gr[1], gr[2]>> \in value.allocations)
                => (<<gr[2], gr[1]>> \in value.round_game_matchups)}

C9_Witness ==
    /\ pc = "fn_checked"
    /\ value.pair # <<>>
    /\ \E gr \in (Games \X Rounds) \ satisfied :
          Cardinality(Allocated(value.allocations, gr[1], gr[2])) >= 3
    /\ \E gr \in satisfied :
          /\ <<value.pair[1], gr[1], gr[2]>> \in value.allocations
          /\ <<gr[2], gr[1]>> \notin value.round_game_matchups

\* the allocations of the schedule in which p plays game f[p, r] in round r
AllocationsOf(f) ==
    {<<c[1], f[c[1], c[2]], c[2]>> : c \in Participants \X Rounds}

\* the schedules of the three rules: one game per participant and round,
\* P / G participants per game, at most _MAX_REPEAT_MATCHUPS shared rounds
RuleSchedules ==
    {alloc \in {AllocationsOf(f) : f \in [Participants \X Rounds -> Games]} :
        /\ \A r \in Rounds : \A g \in Games :
             Cardinality(Allocated(alloc, g, r)) * NUM_GAMES = NUM_PARTICIPANTS
        /\ \A pr \in Combinations :
             Cardinality(SharedRounds(alloc, pr)) <= MAX_REPEAT_MATCHUPS}

\* C10: every schedule of the three rules extends to a valuation that
\* satisfies all the constraints of main, and the allocations the model
\* admits are exactly those schedules.
C10_ModelComplete ==
    (pc = "solve") =>
        /\ \A alloc \in RuleSchedules :
              alloc \in FeasibleAllocations /\ Extendable(alloc)
        /\ {alloc \in FeasibleAllocations : Extendable(alloc)} = RuleSchedules

C10_Witness ==
    /\ pc = "solve"
    /\ NUM_GAMES >= 2
    /\ NUM_ROUNDS >= 2
    /\ \E alloc \in RuleSchedules : \E pr \in Combinations :
          /\ MAX_REPEAT_MATCHUPS >= 1
          /\ Cardinality(SharedRounds(alloc, pr)) = MAX_REPEAT_MATCHUPS

====
